---- MODULE Spec2Model ----
(***************************************************************************)
(* Model of the blocked sorted sequence ArrayTree and of its search        *)
(* primitive binary_search_by (SortedSlotArray/src/array_tree.rs).         *)
(* Indices are 0-based as in the source; a TLA+ sequence s holds the       *)
(* element of index i at s[i + 1].                                         *)
(***************************************************************************)
EXTENDS Integers, Sequences, FiniteSets

VARIABLES data, capacity, num_elements, panicked, inserted, last,
          sData, sTarget, sResult

vars == <<data, capacity, num_elements, panicked, inserted, last,
          sData, sTarget, sResult>>

treeVars == <<data, capacity, num_elements, panicked, inserted, last>>

searchVars == <<sData, sTarget, sResult>>

\* ---------------------------------------------------------------- bounds
\* Largest capacity handed to ArrayTree::new.
MaxCap == 4

\* Elements are the integers 1..MaxVal.
MaxVal == 6

Capacities == 1..MaxCap

Values == 1..MaxVal

\* ------------------------------------------------------------ comparator
\* int_comparator / partial_cmp: the total order on the elements.
Cmp(a, b) == IF a < b THEN "Less" ELSE IF a = b THEN "Equal" ELSE "Greater"

\* ------------------------------------------------------ binary_search_by
\* The closure f is handed over as the sequence of its results, cmps[i + 1]
\* being f(&data[i]); "Panic" stands for a closure call that faults (it is
\* evaluated only for the elements the loop visits).
\* SearchHit without the exact-match flag.
SearchHitUnflagged(i) == [idx |-> i, equals |-> FALSE, fault |-> FALSE]

\* Lines 152-154: an element comparing Equal was found at index i.
SearchHit(i) == [idx |-> i, equals |-> TRUE, fault |-> FALSE]

SearchMiss(i) == [idx |-> i, equals |-> FALSE, fault |-> FALSE]

SearchFault == [idx |-> 0, equals |-> FALSE, fault |-> TRUE]

\* SearchLoop with the upper end narrowed to mid - 1 instead of mid.
RECURSIVE SearchLoopNarrow(_, _, _)
SearchLoopNarrow(cmps, l, r) ==
    IF r > l
    THEN LET mid == l + (r - l) \div 2
             cmp == cmps[mid + 1]
         IN  CASE cmp = "Greater" -> SearchLoopNarrow(cmps, l, mid - 1)
               [] cmp = "Equal"   -> SearchHit(mid)
               [] cmp = "Less"    -> SearchLoopNarrow(cmps, mid + 1, r)
               [] OTHER           -> SearchFault
    ELSE SearchMiss(r)

RECURSIVE SearchLoop(_, _, _)
SearchLoop(cmps, l, r) ==
    IF r > l
    THEN LET mid == l + (r - l) \div 2
             cmp == cmps[mid + 1]
         IN  CASE cmp = "Greater" -> SearchLoop(cmps, l, mid)
               [] cmp = "Equal"   -> SearchHit(mid)
               [] cmp = "Less"    -> SearchLoop(cmps, mid + 1, r)
               [] OTHER           -> SearchFault
    ELSE SearchMiss(r)

binary_search_by(cmps) ==
    IF Len(cmps) = 0
    THEN SearchMiss(Len(cmps))
    ELSE SearchLoop(cmps, 0, Len(cmps))

\* |block| (self.comparator)(&block[0], &t): block[0] faults on an empty block.
HeadCmps(d, t) ==
    [i \in 1..Len(d) |-> IF Len(d[i]) = 0 THEN "Panic" ELSE Cmp(d[i][1], t)]

\* |x| (self.comparator)(&x, &t)
ValueCmps(block, t) == [i \in 1..Len(block) |-> Cmp(block[i], t)]

\* ------------------------------------------------------------- ArrayTree
\* Vec::insert(i, e) with 0-based i <= len.
VecInsert(s, i, e) == SubSeq(s, 1, i) \o <<e>> \o SubSeq(s, i + 1, Len(s))

new_block(t) == <<t>>

\* SplitBlocks with the tail slice ending one element early.
SplitBlocksShort(d, cap, ib) ==
    LET tail_from  == cap \div 2
        tail_upto  == cap - 1
        block      == d[ib + 1]
        block_tail == SubSeq(block, tail_from + 1, tail_upto)
        truncated  == [d EXCEPT ![ib + 1] = SubSeq(block, 1, tail_from)]
    IN  VecInsert(truncated, ib + 1, block_tail)

\* SplitBlocks cutting at (capacity - 1) / 2.
SplitBlocksUneven(d, cap, ib) ==
    LET tail_from  == (cap - 1) \div 2
        tail_upto  == cap
        block      == d[ib + 1]
        block_tail == SubSeq(block, tail_from + 1, tail_upto)
        truncated  == [d EXCEPT ![ib + 1] = SubSeq(block, 1, tail_from)]
    IN  VecInsert(truncated, ib + 1, block_tail)

\* Lines 57-63: the split of the full block ib into front and tail.
SplitBlocks(d, cap, ib) ==
    LET tail_from  == cap \div 2
        tail_upto  == cap
        block      == d[ib + 1]
        block_tail == SubSeq(block, tail_from + 1, tail_upto)
        truncated  == [d EXCEPT ![ib + 1] = SubSeq(block, 1, tail_from)]
    IN  VecInsert(truncated, ib + 1, block_tail)

\* RouteAfterSplit that never advances to the tail block.
RouteAlwaysFront(d, ib, t) == ib

\* RouteAfterSplit advancing to the tail block on Less instead of Greater.
RouteInverted(d, ib, t) ==
    IF Cmp(t, d[ib + 2][1]) = "Less" THEN ib + 1 ELSE ib

\* Lines 67-71: the half of the split block that receives t.
RouteAfterSplit(d, ib, t) ==
    IF Cmp(t, d[ib + 2][1]) = "Greater" THEN ib + 1 ELSE ib

\* Lines 75-96: the search inside block ib and the insertion of t.
PlaceValue(d, n, ib, t, didSplit) ==
    LET block == d[ib + 1]
        vs    == binary_search_by(ValueCmps(block, t))
    IN  IF vs.equals
        THEN [data |-> d, num |-> n, ret |-> FALSE, fault |-> FALSE,
              split |-> didSplit]
        ELSE LET block_len == Len(block)
                 newBlock  == IF vs.idx < block_len
                              THEN VecInsert(block, vs.idx, t)
                              ELSE Append(block, t)
             IN  [data |-> [d EXCEPT ![ib + 1] = newBlock], num |-> n + 1,
                  ret |-> TRUE, fault |-> FALSE, split |-> didSplit]

\* Line 34-37: the first element creates the first block; the counter is
\* left alone on this path.
FirstInsert(n, t) ==
    [data |-> <<new_block(t)>>, num |-> n, ret |-> TRUE, fault |-> FALSE,
     split |-> FALSE]

\* LastSmaller stepping back two blocks.
LastSmallerTwice(idx) == IF idx > 1 THEN idx - 2 ELSE 0

\* Lines 48-53: from "first larger" to "last smaller" index semantics.
LastSmaller(idx) == IF idx > 0 THEN idx - 1 ELSE 0

\* ArrayTree::insert as a function of the object's fields and the argument.
InsertOutcome(d, cap, n, t) ==
    IF Len(d) = 0
    THEN FirstInsert(n, t)
    ELSE LET bs == binary_search_by(HeadCmps(d, t))
         IN  IF bs.fault
             THEN [data |-> d, num |-> n, ret |-> FALSE, fault |-> TRUE,
                   split |-> FALSE]
             ELSE IF bs.equals
             THEN [data |-> d, num |-> n, ret |-> FALSE, fault |-> FALSE,
                   split |-> FALSE]
             ELSE LET idx_block == LastSmaller(bs.idx)
                  IN  IF Len(d[idx_block + 1]) >= cap
                      THEN LET d2 == SplitBlocks(d, cap, idx_block)
                           IN  IF Len(d2[idx_block + 2]) = 0
                               THEN [data |-> d2, num |-> n, ret |-> FALSE,
                                     fault |-> TRUE, split |-> TRUE]
                               ELSE PlaceValue(d2, n,
                                        RouteAfterSplit(d2, idx_block, t),
                                        t, TRUE)
                      ELSE PlaceValue(d, n, idx_block, t, FALSE)

\* TraverseFrom handing the visitor the position inside the block.
RECURSIVE TraverseBlockLocal(_, _, _)
TraverseBlockLocal(d, b, i) ==
    IF b > Len(d)
    THEN <<>>
    ELSE [k \in 1..Len(d[b]) |-> [i |-> k - 1, x |-> d[b][k]]]
         \o TraverseBlockLocal(d, b + 1, i + Len(d[b]))

\* ArrayTree::traverse: the calls f(i, x) it makes, in order.
RECURSIVE TraverseFrom(_, _, _)
TraverseFrom(d, b, i) ==
    IF b > Len(d)
    THEN <<>>
    ELSE [k \in 1..Len(d[b]) |-> [i |-> i + k - 1, x |-> d[b][k]]]
         \o TraverseFrom(d, b + 1, i + Len(d[b]))

Traverse(d) == TraverseFrom(d, 1, 0)

\* ArrayTree::collect: pushes a clone of every visited element.
Collect(d) == LET visits == Traverse(d)
              IN  [k \in 1..Len(visits) |-> visits[k].x]

\* ArrayTree::len
LenOf(n) == n

\* ------------------------------------------------------------ the calls
NoCall == [op |-> "new", arg |-> 0, ret |-> TRUE, split |-> FALSE,
           out |-> <<>>]

NoResult == [idx |-> 0, equals |-> FALSE, fault |-> FALSE, done |-> FALSE]

SearchIdle == sData = <<>> /\ sTarget = 0 /\ sResult = NoResult

\* ArrayTree::new(comparator, capacity)
InitTree(caps) ==
    /\ capacity \in caps
    /\ data = <<>>
    /\ num_elements = 0
    /\ panicked = FALSE
    /\ inserted = {}
    /\ last = NoCall

Init == InitTree(Capacities) /\ SearchIdle

Insert(t) ==
    /\ ~panicked
    /\ LET o == InsertOutcome(data, capacity, num_elements, t)
       IN  /\ data' = o.data
           /\ num_elements' = o.num
           /\ panicked' = o.fault
           /\ inserted' = IF o.fault THEN inserted ELSE inserted \cup {t}
           /\ last' = [op |-> "insert", arg |-> t, ret |-> o.ret,
                       split |-> o.split, out |-> <<>>]
    /\ UNCHANGED <<capacity, searchVars>>

LenCall ==
    /\ ~panicked
    /\ last' = [op |-> "len", arg |-> 0, ret |-> TRUE, split |-> FALSE,
                out |-> <<LenOf(num_elements)>>]
    /\ UNCHANGED <<data, capacity, num_elements, panicked, inserted,
                   searchVars>>

TraverseCall ==
    /\ ~panicked
    /\ last' = [op |-> "traverse", arg |-> 0, ret |-> TRUE, split |-> FALSE,
                out |-> Traverse(data)]
    /\ UNCHANGED <<data, capacity, num_elements, panicked, inserted,
                   searchVars>>

CollectCall ==
    /\ ~panicked
    /\ last' = [op |-> "collect", arg |-> 0, ret |-> TRUE, split |-> FALSE,
                out |-> Collect(data)]
    /\ UNCHANGED <<data, capacity, num_elements, panicked, inserted,
                   searchVars>>

InsertAny == \E t \in Values : Insert(t)

Next == InsertAny \/ LenCall \/ TraverseCall \/ CollectCall

Spec == Init /\ [][Next]_vars

\* ------------------------------------------- distinct-value insertions
\* Capacities of test_array_tree_collect (2, 3, 4, 5) and of test_failing
\* (16), fed pairwise distinct values as the random tests do.
SmallTestCapacities == {2, 3, 4, 5}

BigCapacity == 16

\* Values beyond a full first block that the big capacity is offered.
Extra == 2

DistinctValues(cap) ==
    IF cap = BigCapacity THEN 1..(BigCapacity + Extra) ELSE Values

\* The ascending sequence of the elements of the set S.
RECURSIVE SortedSeq(_)
SortedSeq(S) ==
    IF S = {}
    THEN <<>>
    ELSE LET m == CHOOSE x \in S : \A y \in S : x <= y
         IN  <<m>> \o SortedSeq(S \ {m})

\* The tree after BigCapacity pairwise distinct values went into a new
\* tree: no block was full before, so they sit sorted in the one block
\* (the first insert leaves the counter at 0, the others add 1 each).
FilledFirstBlock(S) ==
    /\ capacity = BigCapacity
    /\ data = <<SortedSeq(S)>>
    /\ num_elements = Cardinality(S) - 1
    /\ panicked = FALSE
    /\ inserted = S
    /\ last = [op |-> "insert", arg |-> CHOOSE x \in S : TRUE, ret |-> TRUE,
               split |-> FALSE, out |-> <<>>]

InitDistinct ==
    /\ \/ InitTree(SmallTestCapacities)
       \/ \E S \in SUBSET DistinctValues(BigCapacity) :
              Cardinality(S) = BigCapacity /\ FilledFirstBlock(S)
    /\ SearchIdle

InsertDistinct ==
    \E t \in DistinctValues(capacity) \ inserted : Insert(t)

NextDistinct == InsertDistinct \/ CollectCall

SpecDistinct == InitDistinct /\ [][NextDistinct]_vars

\* ------------------------------------------------ the search primitive
\* Inputs of binary_search_by: the duplicate-free ascending sequences over
\* SearchValues and the targets around them.
MaxSearchVal == 5

SearchValues == 1..MaxSearchVal

SearchTargets == 0..(MaxSearchVal + 1)

InitSearch ==
    /\ capacity = 1
    /\ data = <<>>
    /\ num_elements = 0
    /\ panicked = FALSE
    /\ inserted = {}
    /\ last = NoCall
    /\ sData \in {SortedSeq(S) : S \in SUBSET SearchValues}
    /\ sTarget \in SearchTargets
    /\ sResult = NoResult

SearchCall ==
    /\ ~sResult.done
    /\ LET r == binary_search_by(ValueCmps(sData, sTarget))
       IN  sResult' = [idx |-> r.idx, equals |-> r.equals,
                       fault |-> r.fault, done |-> TRUE]
    /\ UNCHANGED <<treeVars, sData, sTarget>>

NextSearch == SearchCall

SpecSearch == InitSearch /\ [][NextSearch]_vars

\* ----------------------------------------------------------- properties
\* The elements stored in the blocks.
Elems(d) == UNION {{d[i][k] : k \in 1..Len(d[i])} : i \in 1..Len(d)}

RECURSIVE SumLens(_)
SumLens(d) == IF d = <<>> THEN 0 ELSE Len(Head(d)) + SumLens(Tail(d))

StrictlyAscending(s) ==
    \A i \in 1..(Len(s) - 1) : Cmp(s[i], s[i + 1]) = "Less"

NoEqualPair(s) ==
    \A i, j \in 1..Len(s) : i # j => Cmp(s[i], s[j]) # "Equal"

BlocksOrdered(d) ==
    /\ \A i \in 1..Len(d) : StrictlyAscending(d[i])
    /\ \A i \in 1..(Len(d) - 1) :
           \A a \in 1..Len(d[i]) : \A b \in 1..Len(d[i + 1]) :
               Cmp(d[i][a], d[i + 1][b]) = "Less"

\* A step is a completed insert(t) call.
InsertReturns(t) ==
    /\ last'.op = "insert"
    /\ last'.arg = t
    /\ ~panicked'
    /\ Insert(t)

\* C1: after every insert call collect() is the de-duplicated ascending
\* sequence of the values inserted so far, and no two stored elements
\* compare Equal.
C1_SetSemantics ==
    /\ Collect(data) = SortedSeq(inserted)
    /\ NoEqualPair(Collect(data))

\* C2: collect() is strictly ascending after every insert; every block is
\* strictly ascending and lies wholly below the next block.
C2_Sortedness ==
    /\ StrictlyAscending(Collect(data))
    /\ BlocksOrdered(data)

\* C3: insert(t) returns false exactly when an element comparing Equal to
\* t was already stored, and true otherwise.
C3_DuplicateAuthoritative ==
    [][\A t \in Values :
          InsertReturns(t) =>
              (last'.ret = FALSE <=>
                   \E x \in Elems(data) : Cmp(x, t) = "Equal")]_vars

\* C4: after every insert call len() equals collect().len() and the sum of
\* the block lengths.
C4_CountConsistent ==
    last.op = "insert" =>
        /\ LenOf(num_elements) = Len(Collect(data))
        /\ LenOf(num_elements) = SumLens(data)

\* C5: every block holds at most capacity elements.
C5_BlockBound == \A i \in 1..Len(data) : Len(data[i]) <= capacity

\* C6 as stated: an insert that returns false leaves the blocks and the
\* count exactly as they were.
C6_NoMutationOnReject ==
    [][\A t \in Values :
          InsertReturns(t) /\ last'.ret = FALSE =>
              data' = data /\ num_elements' = num_elements]_vars

\* C6 amended: an insert that returns false leaves the count and the
\* collect() output as they were; the blocks are untouched unless the
\* candidate block was full, and then that block has been split in two.
C6_NoElementChangeOnReject ==
    [][\A t \in Values :
          InsertReturns(t) /\ last'.ret = FALSE =>
              /\ num_elements' = num_elements
              /\ Collect(data') = Collect(data)
              /\ ~last'.split => data' = data
              /\ last'.split => Len(data') = Len(data) + 1]_vars

C6_Witness ==
    /\ last.op = "insert" /\ last.ret = FALSE /\ last.split
    /\ ~panicked
    /\ last.arg \in Elems(data)

\* C7: with the capacities of the tests and pairwise distinct values,
\* collect() is the ascending sort of the values inserted so far after each
\* insertion.
C7_SortOracle ==
    /\ Collect(data) = SortedSeq(inserted)
    /\ last.op = "collect" => last.out = SortedSeq(inserted)

C7_Witness ==
    /\ capacity = BigCapacity
    /\ Len(data) >= 2
    /\ last.op = "collect"
    /\ Len(last.out) > BigCapacity

\* C8: no insert call removes a stored element.
C8_NothingDeleted ==
    [][Elems(data) \subseteq Elems(data')]_vars

\* C9: no call faults.
C9_NoFault == ~panicked

\* The linear scan binary_search_by is compared with: the position of the
\* Equal element if there is one, else that of the first Greater element,
\* else the length.
LinearScan(s, t) ==
    LET eq == {i \in 1..Len(s) : Cmp(s[i], t) = "Equal"}
        gt == {i \in 1..Len(s) : Cmp(s[i], t) = "Greater"}
        Min(S) == CHOOSE x \in S : \A y \in S : x <= y
    IN  IF eq # {} THEN [idx |-> Min(eq) - 1, equals |-> TRUE]
        ELSE IF gt # {} THEN [idx |-> Min(gt) - 1, equals |-> FALSE]
        ELSE [idx |-> Len(s), equals |-> FALSE]

\* C10: on a duplicate-free ascending sequence binary_search_by returns
\* what the linear scan returns, and (0, false) on the empty sequence.
C10_SearchCorrect ==
    sResult.done =>
        /\ ~sResult.fault
        /\ sResult.idx = LinearScan(sData, sTarget).idx
        /\ sResult.equals = LinearScan(sData, sTarget).equals
        /\ sData = <<>> => sResult.idx = 0 /\ ~sResult.equals

C10_Witness ==
    /\ sResult.done
    /\ Len(sData) >= 4
    /\ sResult.equals
    /\ sResult.idx = 3

\* The concatenation of the blocks, block after block.
RECURSIVE Concat(_)
Concat(d) == IF d = <<>> THEN <<>> ELSE Head(d) \o Concat(Tail(d))

\* C11: traverse calls the visitor once per stored element, block after
\* block, never visiting an element before a smaller one, and the k-th
\* call (from 0) carries the index k.
C11_TraverseOrder ==
    last.op = "traverse" =>
        /\ Len(last.out) = SumLens(data)
        /\ \A k \in 1..Len(last.out) :
               /\ last.out[k].i = k - 1
               /\ last.out[k].x = Concat(data)[k]
        /\ \A k \in 1..(Len(last.out) - 1) :
               Cmp(last.out[k].x, last.out[k + 1].x) # "Greater"

C11_Witness ==
    /\ last.op = "traverse"
    /\ Len(data) >= 3
    /\ Len(data[1]) >= 2 /\ Len(data[2]) >= 2
    /\ Len(last.out) >= 5

\* C12: insert(v) on a tree without blocks creates the one block [v],
\* sets the count to 1 and returns true.
C12_InsertIntoEmpty ==
    [][\A t \in Values :
          InsertReturns(t) /\ data = <<>> =>
              /\ data' = <<<<t>>>>
              /\ num_elements' = 1
              /\ last'.ret = TRUE]_vars

\* C17: every block is non-empty.
C17_BlocksNonEmpty == \A i \in 1..Len(data) : Len(data[i]) > 0

\* C18: with two or more blocks every block holds at least capacity / 2
\* elements; a call adds at most one block and removes none.
C18_MinOccupancy ==
    [][/\ Len(data') >= 2 =>
              \A i \in 1..Len(data') : Len(data'[i]) >= capacity \div 2
       /\ Len(data') >= Len(data)
       /\ Len(data') <= Len(data) + 1]_vars

C18_Witness ==
    /\ capacity >= 4
    /\ Len(data) >= 3
    /\ last.op = "insert" /\ last.split
    /\ \E i \in 1..Len(data) : Len(data[i]) = capacity \div 2

\* The block b with the new value t at its sorted position.
SortedInsert(b, t) ==
    LET IsLess(x) == Cmp(x, t) = "Less"
        NotLess(x) == Cmp(x, t) # "Less"
    IN  SelectSeq(b, IsLess) \o <<t>> \o SelectSeq(b, NotLess)

\* The block b without the value t.
Without(b, t) == LET Other(x) == x # t IN SelectSeq(b, Other)

\* The last block whose first element is Less than t, block 0 if none.
CandidateBlock(d, t) ==
    LET below == {i \in 0..(Len(d) - 1) :
                     Len(d[i + 1]) > 0 /\ Cmp(d[i + 1][1], t) = "Less"}
    IN  IF below = {} THEN 0
        ELSE CHOOSE i \in below : \A j \in below : j <= i

\* The blocks d with block ib cut into its first cap / 2 elements and all
\* its remaining elements.
ExpectedSplit(d, ib, cap) ==
    LET b == d[ib + 1]
    IN  SubSeq(d, 1, ib)
        \o <<SubSeq(b, 1, cap \div 2), SubSeq(b, cap \div 2 + 1, Len(b))>>
        \o SubSeq(d, ib + 2, Len(d))

\* d2 is the layout s, possibly with t added to one block.
IsLayoutPlus(d2, s, t) ==
    \/ d2 = s
    \/ /\ Len(d2) = Len(s)
       /\ \E j \in 1..Len(d2) :
              \E k \in 1..Len(d2[j]) :
                  /\ d2[j][k] = t
                  /\ [d2 EXCEPT ![j] = SubSeq(@, 1, k - 1)
                                        \o SubSeq(@, k + 1, Len(@))] = s

\* C13: the split of a full candidate block keeps its first capacity / 2
\* elements in place, moves all the others in order into a new block right
\* after it and touches no other block, so that the concatenation of the
\* blocks is that from before the split.
C13_SplitShape ==
    [][\A t \in Values :
          InsertReturns(t) /\ last'.split =>
              \E ib \in 0..(Len(data) - 1) :
                  /\ Len(data[ib + 1]) >= capacity
                  /\ IsLayoutPlus(data',
                                  ExpectedSplit(data, ib, capacity), t)]_vars

\* C14: the scenarios of test_array_tree_split.
C14_Scenarios ==
    LET start == <<<<2, 4>>, <<6, 8>>>>
        After(t) == InsertOutcome(start, 2, 4, t)
    IN  /\ After(3).data = <<<<2, 3>>, <<4>>, <<6, 8>>>> /\ After(3).num = 5
        /\ After(5).data = <<<<2>>, <<4, 5>>, <<6, 8>>>> /\ After(5).num = 5
        /\ After(7).data = <<<<2, 4>>, <<6, 7>>, <<8>>>> /\ After(7).num = 5
        /\ After(9).data = <<<<2, 4>>, <<6>>, <<8, 9>>>> /\ After(9).num = 5

\* C14: an insert of a new value t that splits its candidate block into
\* front F and tail T puts t at its sorted position in T if t is Greater
\* than T's first element and in F otherwise, touches no other block and
\* adds 1 to the count.
C14_SplitRouting ==
    [][\A t \in Values :
          InsertReturns(t) /\ last'.split /\ t \notin Elems(data) =>
              LET ib == CandidateBlock(data, t)
                  F2 == data'[ib + 1]
                  T2 == data'[ib + 2]
                  F  == Without(F2, t)
                  T  == Without(T2, t)
                  b  == data[ib + 1]
              IN  /\ C14_Scenarios
                  /\ Len(data') = Len(data) + 1
                  /\ SubSeq(data', 1, ib) = SubSeq(data, 1, ib)
                  /\ SubSeq(data', ib + 3, Len(data'))
                         = SubSeq(data, ib + 2, Len(data))
                  /\ F = SubSeq(b, 1, Len(F))
                  /\ T = SubSeq(b, Len(F) + 1, Len(F) + Len(T))
                  /\ T # <<>>
                  /\ IF Cmp(t, T[1]) = "Greater"
                     THEN F2 = F /\ T2 = SortedInsert(T, t)
                     ELSE F2 = SortedInsert(F, t) /\ T2 = T
                  /\ num_elements' = num_elements + 1
                  /\ last'.ret = TRUE]_vars

C14_Witness ==
    /\ last.op = "insert" /\ last.split /\ last.ret
    /\ ~panicked
    /\ capacity >= 3
    /\ \E i \in 1..(Len(data) - 1) :
           /\ Len(data[i]) >= 2 /\ Len(data[i + 1]) >= 2
           /\ \E k \in 2..Len(data[i + 1]) : data[i + 1][k] = last.arg
           /\ Len(data[i]) + Len(data[i + 1]) = capacity + 1

\* C15: a new value t whose candidate block (the last block with a first
\* element Less than t, block 0 if none) is not full is put at its sorted
\* position in that block, without a split; no other block changes and
\* the number of blocks stays.
C15_CandidateNoSplit ==
    [][\A t \in Values :
          (/\ InsertReturns(t)
           /\ data # <<>>
           /\ t \notin Elems(data)
           /\ Len(data[CandidateBlock(data, t) + 1]) < capacity) =>
              /\ ~last'.split
              /\ last'.ret = TRUE
              /\ data' = [data EXCEPT ![CandidateBlock(data, t) + 1] =
                                           SortedInsert(@, t)]]_vars

C15_Witness ==
    /\ last.op = "insert" /\ ~last.split /\ last.ret
    /\ \E i \in 1..(Len(data) - 1) :
           /\ Len(data[i]) >= 2
           /\ data[i][Len(data[i])] = last.arg
           /\ Cmp(last.arg, data[i + 1][1]) = "Less"

\* C16: an insert of a value Equal to the first element of some block
\* returns false and leaves the blocks and the count as they were.
C16_HeadDuplicate ==
    [][\A t \in Values :
          (/\ InsertReturns(t)
           /\ \E i \in 1..Len(data) :
                  Len(data[i]) > 0 /\ Cmp(data[i][1], t) = "Equal") =>
              /\ last'.ret = FALSE
              /\ ~last'.split
              /\ data' = data
              /\ num_elements' = num_elements]_vars

C16_Witness ==
    /\ last.op = "insert" /\ ~last.ret /\ ~last.split
    /\ StrictlyAscending(Concat(data))
    /\ capacity >= 2
    /\ \E i \in 2..Len(data) :
           /\ data[i][1] = last.arg
           /\ Len(data[i]) = capacity
           /\ Len(data[i - 1]) = capacity

====
